---- MODULE Spec2Model ----
(***************************************************************************)
(* Model of the data pipeline of sigma-terminal (src/src/App.jsx):         *)
(*   fetchFredSeries / fetchFredMultiple / fetchFedData   (series joiner)  *)
(*   fetchYieldCurveSnapshots                              (curve snapshots)*)
(*   fetchMTSData                                          (fiscal parser) *)
(*   fetchTICData                                          (holdings merge)*)
(*                                                                         *)
(* Encoding.  A date string "YYYY-MM-DD" is the integer YYYYMMDD and a     *)
(* month key "YYYY-MM" is the integer YYYYMM; on well-formed zero-padded   *)
(* dates the JavaScript string order is the integer order.  A JavaScript   *)
(* value that may be null/undefined is a sequence of length <= 1: Null is  *)
(* <<>> and a number v is <<v>>.  An object keyed by strings is a TLA+     *)
(* function whose DOMAIN is the set of own keys.  Raw text cells are       *)
(* strings, turned into numbers by the parse operators below.              *)
(***************************************************************************)
EXTENDS Integers, Sequences, FiniteSets, TLC

VARIABLES
    pc,        \* which fetch function is about to run / "done"
    fredObs,   \* fetchFedData: series key -> raw observations served by FRED
    raw,       \* fetchFedData: the table returned by fetchFredMultiple
    fedRows,   \* fetchFedData: returned rows
    ycObs,     \* fetchYieldCurveSnapshots: maturity label -> raw observations
    curves,    \* fetchYieldCurveSnapshots: returned snapshots
    mtsData,   \* fetchMTSData: data.data, the rows of the payload
    monthlyMap,\* fetchMTSData: the local monthlyMap after the walk
    mts,       \* fetchMTSData: returned value or thrown error
    ticHist,   \* fetchTICData: response for mfhhis01.txt (ok flag, lines of fields)
    ticHtml,   \* fetchTICData: response for slt_table5.html (ok flag, table rows)
    now,       \* fetchTICData: new Date() as [year, month], month 1..12
    histData,  \* fetchTICData: countryData after the historical stage
    countryData, \* fetchTICData: countryData after the current stage
    tic,       \* fetchTICData: returned value or thrown error
    debtData,  \* fetchDebtData: the response (ok flag, data.data)
    debt,      \* fetchDebtData: returned rows or thrown error
    again,     \* a second run of the same fetch function: its clock and outputs
    mounted,   \* useDataFetcher: the component is mounted, its effects have run
    apiKey,    \* useDataFetcher: the apiKey prop (fredKey of App), "" when unset
    cycle,     \* useDataFetcher: number of key-driven refresh cycles started
    liveData,  \* useDataFetcher: liveData state, source key -> stored data
    loadingStatus, \* useDataFetcher: loadingStatus state, source key -> status
    errors,    \* useDataFetcher: errors state, source key -> message
    lastUpdated,   \* useDataFetcher: lastUpdated state
    inflight   \* useDataFetcher: fetchSource calls suspended at await fn()

Null == <<>>
Some(v) == <<v>>
NotRun == [status |-> "notrun"]

fedVars == <<fredObs, raw, fedRows>>
ycVars == <<ycObs, curves>>
mtsVars == <<mtsData, monthlyMap, mts>>
ticVars == <<ticHist, ticHtml, now, histData, countryData, tic>>
debtVars == <<debtData, debt>>
hookVars == <<mounted, apiKey, cycle, liveData, loadingStatus, errors, lastUpdated, inflight>>
vars == <<pc, fedVars, ycVars, mtsVars, ticVars, debtVars, again, hookVars>>

FedIdle == fredObs = NotRun /\ raw = NotRun /\ fedRows = NotRun
YcIdle == ycObs = NotRun /\ curves = NotRun
MtsIdle == mtsData = NotRun /\ monthlyMap = NotRun /\ mts = NotRun
TicIdle ==
    /\ ticHist = NotRun /\ ticHtml = NotRun /\ now = NotRun
    /\ histData = NotRun /\ countryData = NotRun /\ tic = NotRun
DebtIdle == debtData = NotRun /\ debt = NotRun
HookIdle ==
    /\ again = NotRun
    /\ mounted = FALSE /\ apiKey = "" /\ cycle = 0
    /\ liveData = <<>> /\ loadingStatus = <<>> /\ errors = <<>>
    /\ lastUpdated = Null /\ inflight = {}


---------------------------------------------------------------------------
(* Generic helpers *)

\* The elements of a finite set of integers as an ascending sequence.
RECURSIVE AscSeq(_)
AscSeq(S) ==
    IF S = {} THEN <<>>
    ELSE LET m == CHOOSE x \in S : \A y \in S : x <= y
         IN <<m>> \o AscSeq(S \ {m})

Range(s) == {s[i] : i \in DOMAIN s}

\* obj[key] = v on an object modelled as a function
Put(obj, key, v) == [k \in DOMAIN obj \cup {key} |-> IF k = key THEN v ELSE obj[k]]

\* n/d rounded to the nearest integer, halves away from zero (Number.toFixed
\* on the quotient, in units of the last kept digit), d > 0.
RoundDiv(n, d) ==
    IF n >= 0 THEN (2 * n + d) \div (2 * d) ELSE -((2 * (-n) + d) \div (2 * d))

---------------------------------------------------------------------------
(* FRED observations (fetchFredSeries) *)

\* parseFloat on the decimal strings FRED serves, in hundredths.
ParseFloat(tok) ==
    CASE tok = "0.00" -> 0
      [] tok = "1.52" -> 152
      [] tok = "4.25" -> 425
      [] tok = "2100.5" -> 210050
      [] tok = "4200000" -> 420000000
      [] tok = "7500000" -> 750000000

\* data.observations.filter(o => o.value !== ".").map(parseFloat)
FetchFredSeries(observations) ==
    LET kept == SelectSeq(observations, LAMBDA o : o.value # ".")
    IN [i \in DOMAIN kept |-> [date |-> kept[i].date, value |-> ParseFloat(kept[i].value)]]

\* Payloads with sort_order=asc: strictly ascending dates, at most n entries.
AscObservations(dates, toks, n) ==
    UNION { { LET ds == AscSeq(S)
              IN [i \in DOMAIN ds |-> [date |-> ds[i], value |-> f[ds[i]]]]
              : f \in [S -> toks] }
            : S \in {T \in SUBSET dates : Cardinality(T) <= n} }

---------------------------------------------------------------------------
(* fetchFredMultiple, fetchFedData *)

MaxFredObs == 2
FredDates == {20210101, 20210115, 20210201}
TotalTokens == {".", "0.00", "7500000"}
HoldingTokens == {"0.00", "4200000"}
OptionalObs == {<<>>, <<[date |-> 20210201, value |-> "2100.5"]>>}

\* the seriesMap of fetchFedData, in insertion order
FedKeys == <<"total", "treasuries", "mbs", "rrp", "tga", "reserves">>
FedRequired == {"total", "treasuries", "mbs"}

BucketByDay(date) == date

\* date.slice(0, 7)
Bucket(date) == date \div 100

\* if (!byDate[dk]) byDate[dk] = { date: dk }; byDate[dk][key] = value
PutObservation(byDate, key, o) ==
    LET dk == Bucket(o.date)
        row == IF dk \in DOMAIN byDate THEN byDate[dk] ELSE [date |-> dk]
    IN Put(byDate, dk, Put(row, key, o.value))

RECURSIVE PutSeries(_, _, _)
PutSeries(byDate, key, data) ==
    IF data = <<>> THEN byDate
    ELSE PutSeries(PutObservation(byDate, key, Head(data)), key, Tail(data))

RECURSIVE PutResults(_, _, _)
PutResults(byDate, keys, obs) ==
    IF keys = <<>> THEN byDate
    ELSE PutResults(PutSeries(byDate, Head(keys), FetchFredSeries(obs[Head(keys)])),
                    Tail(keys), obs)

\* Object.values(byDate).sort((a, b) => a.date.localeCompare(b.date))
fetchFredMultiple(keys, obs) ==
    LET byDate == PutResults(<<>>, keys, obs)
        order == AscSeq(DOMAIN byDate)
    IN [i \in DOMAIN order |-> byDate[order[i]]]

\* JavaScript truthiness of d[key] for a numeric field that may be absent
Truthy(d, key) == key \in DOMAIN d /\ d[key] # 0

\* d.total && d.treasuries && d.mbs
HasRequired(d) == Truthy(d, "total") /\ Truthy(d, "treasuries") /\ Truthy(d, "mbs")

\* d[key] || 0
OrZero(d, key) == IF Truthy(d, key) THEN d[key] ELSE 0

\* Parsed values are in hundredths of the series unit (millions, RRP billions);
\* returned fields are in thousandths of a trillion (toFixed(3)).
FedRow(d) ==
    LET total == d.total
        treasuries == d.treasuries
        mbs == d.mbs
        rrp == OrZero(d, "rrp") * 1000
        tga == OrZero(d, "tga")
        reserves == OrZero(d, "reserves")
        diff == total - treasuries - mbs
        other == IF diff > 0 THEN diff ELSE 0
    IN [date |-> d.date,
        total |-> RoundDiv(total, 100000),
        treasuries |-> RoundDiv(treasuries, 100000),
        mbs |-> RoundDiv(mbs, 100000),
        other |-> RoundDiv(other, 100000),
        rrp |-> RoundDiv(rrp, 100000),
        tga |-> RoundDiv(tga, 100000),
        reserves |-> RoundDiv(reserves, 100000),
        netLiquidity |-> RoundDiv(total - rrp - tga, 100000)]

fetchFedData(joined) ==
    LET kept == SelectSeq(joined, HasRequired)
    IN [i \in DOMAIN kept |-> FedRow(kept[i])]

FedPayloads ==
    {[k \in Range(FedKeys) |->
        CASE k = "total" -> t
          [] k = "treasuries" -> h[1]
          [] k = "mbs" -> h[2]
          [] k = "rrp" -> o[1]
          [] k = "tga" -> o[2]
          [] k = "reserves" -> o[3]]
      : t \in AscObservations(FredDates, TotalTokens, MaxFredObs),
        h \in [1..2 -> AscObservations(FredDates, HoldingTokens, MaxFredObs)],
        o \in [1..3 -> OptionalObs]}

InitFed ==
    /\ pc = "fed"
    /\ fredObs \in FedPayloads
    /\ raw = NotRun /\ fedRows = NotRun
    /\ YcIdle /\ MtsIdle /\ TicIdle /\ DebtIdle /\ HookIdle

RunFed ==
    /\ pc = "fed"
    /\ raw' = fetchFredMultiple(FedKeys, fredObs)
    /\ fedRows' = fetchFedData(raw')
    /\ pc' = "fedDone"
    /\ UNCHANGED <<fredObs, ycVars, mtsVars, ticVars, debtVars, again, hookVars>>

SpecFed == InitFed /\ [][RunFed]_vars

---------------------------------------------------------------------------
(* fetchYieldCurveSnapshots *)

MaxYcObs == 2
Mats == {"1M", "10Y"}
YcDates == {20200114, 20200115, 20220118, 20230710}
YcTokens == {".", "0.00", "1.52"}

SnapNames == {"Pre-COVID (Jan '20)", "Pre-Hike (Jan '22)", "Peak Inversion (Jul '23)"}
snapDates ==
    [n \in SnapNames |->
        CASE n = "Pre-COVID (Jan '20)" -> 20200115
          [] n = "Pre-Hike (Jan '22)" -> 20220115
          [] n = "Peak Inversion (Jul '23)" -> 20230710]

RECURSIVE ScanBackStrict(_, _, _)
ScanBackStrict(s, i, target) ==
    IF i < 1 THEN Null
    ELSE IF s[i].date < target THEN Some(s[i].value)
    ELSE ScanBackStrict(s, i - 1, target)

\* for (i = s.length - 1; i >= 0; i--) if (s[i].date <= target) return s[i].value
RECURSIVE ScanBack(_, _, _)
ScanBack(s, i, target) ==
    IF i < 1 THEN Null
    ELSE IF s[i].date <= target THEN Some(s[i].value)
    ELSE ScanBack(s, i - 1, target)

getVal(all, label, target) == ScanBack(all[label], Len(all[label]), target)

\* s[s.length - 1]?.value || null
currentValue(s) ==
    IF Len(s) = 0 THEN Null
    ELSE IF s[Len(s)].value = 0 THEN Null
    ELSE Some(s[Len(s)].value)

fetchYieldCurveSnapshots(obs) ==
    LET all == [label \in Mats |-> FetchFredSeries(obs[label])]
    IN [name \in SnapNames \cup {"Current"} |->
          IF name = "Current"
          THEN [label \in Mats |-> currentValue(all[label])]
          ELSE [label \in Mats |-> getVal(all, label, snapDates[name])]]

InitYC ==
    /\ pc = "yieldCurve"
    /\ FedIdle /\ MtsIdle /\ TicIdle /\ DebtIdle /\ HookIdle
    /\ ycObs \in [Mats -> AscObservations(YcDates, YcTokens, MaxYcObs)]
    /\ curves = NotRun

RunYieldCurve ==
    /\ pc = "yieldCurve"
    /\ curves' = fetchYieldCurveSnapshots(ycObs)
    /\ pc' = "yieldCurveDone"
    /\ UNCHANGED <<ycObs, fedVars, mtsVars, ticVars, debtVars, again, hookVars>>

SpecYC == InitYC /\ [][RunYieldCurve]_vars

---------------------------------------------------------------------------
(* fetchMTSData *)

MaxMtsRows == 4

\* parseAmt, in units of 10^7 dollars (hundredths of a billion):
\* null, "null", "" and text parseFloat cannot read give 0.
parseAmt(v) ==
    CASE v = "null" -> 0
      [] v = "" -> 0
      [] v = "n/a" -> 0
      [] v = "0" -> 0
      [] v = "20000000" -> 2
      [] v = "403880000000" -> 40388
      [] v = "410000000000" -> 41000
      [] v = "470120000000" -> 47012
      [] v = "66240000000" -> 6624
      [] v = "60120000000" -> 6012
      [] v = "274000000000" -> 27400
      [] v = "588000000000" -> 58800
      [] v = "314000000000" -> 31400
      [] v = "500000000000" -> 50000
      [] v = "480000000000" -> 48000
      [] v = "-20000000000" -> -2000

\* MONTH_MAP[row.classification_desc.toLowerCase()], 0 when there is no entry
MONTH_MAP(desc) ==
    CASE desc \in {"October", "october", "OCTOBER"} -> 10
      [] desc \in {"November", "november"} -> 11
      [] desc \in {"December", "december"} -> 12
      [] desc \in {"January", "january"} -> 1
      [] desc \in {"February", "february"} -> 2
      [] desc \in {"March", "march"} -> 3
      [] desc \in {"April", "april"} -> 4
      [] desc \in {"May", "may"} -> 5
      [] desc \in {"June", "june"} -> 6
      [] desc \in {"July", "july"} -> 7
      [] desc \in {"August", "august"} -> 8
      [] desc \in {"September", "september"} -> 9
      [] OTHER -> 0

\* /^FY \d{4}$/.test(desc), and parseInt(desc.replace("FY ", ""))
IsFYHeader(desc) == desc \in {"FY 2024", "FY 2025", "FY 0000"}
FYOf(desc) ==
    CASE desc = "FY 2024" -> 2024
      [] desc = "FY 2025" -> 2025
      [] desc = "FY 0000" -> 0

\* +(x / 1e9).toFixed(1), in tenths of a billion
ToTenths(x) == RoundDiv(x, 10)
Abs(x) == IF x < 0 THEN -x ELSE x

\* byReport: the report dates in order of first appearance, each with its rows
RECURSIVE GroupByReport(_, _)
GroupByReport(byReport, data) ==
    IF data = <<>> THEN byReport
    ELSE LET d == Head(data)
             at == {i \in DOMAIN byReport : byReport[i].reportDate = d.record_date}
         IN IF at = {}
            THEN GroupByReport(
                    Append(byReport, [reportDate |-> d.record_date, rows |-> <<d>>]),
                    Tail(data))
            ELSE GroupByReport(
                    [i \in DOMAIN byReport |->
                        IF i \in at
                        THEN [byReport[i] EXCEPT !.rows = Append(@, d)]
                        ELSE byReport[i]],
                    Tail(data))

\* rows.sort((a, b) => parseInt(a.line_code_nbr) - parseInt(b.line_code_nbr)),
\* a stable sort
RECURSIVE InsertByLine(_, _)
InsertByLine(sorted, row) ==
    IF sorted = <<>> THEN <<row>>
    ELSE IF Head(sorted).line_code_nbr <= row.line_code_nbr
         THEN <<Head(sorted)>> \o InsertByLine(Tail(sorted), row)
         ELSE <<row>> \o sorted

KeepPayloadOrder(rows) == rows

RECURSIVE SortByLine(_)
SortByLine(rows) ==
    IF rows = <<>> THEN <<>>
    ELSE InsertByLine(SortByLine(SubSeq(rows, 1, Len(rows) - 1)), rows[Len(rows)])

DateKeyCalendar(fy, calMonth) == fy * 100 + calMonth

\* calMonth >= 10 ? currentFY - 1 : currentFY, and the "YYYY-MM" key
DateKey(fy, calMonth) == (IF calMonth >= 10 THEN fy - 1 ELSE fy) * 100 + calMonth

MonthlyRecordNoSignFix(dateKey, fy, calMonth, rcpt, outly, dfct, reportDate) ==
    [date |-> dateKey,
     fy |-> fy,
     calMonth |-> calMonth,
     revenue |-> ToTenths(rcpt),
     spending |-> ToTenths(Abs(outly)),
     deficit |-> ToTenths(-Abs(dfct)),
     reportDate |-> reportDate]

\* the record of lines 248-258
MonthlyRecord(dateKey, fy, calMonth, rcpt, outly, dfct, reportDate) ==
    [date |-> dateKey,
     fy |-> fy,
     calMonth |-> calMonth,
     revenue |-> ToTenths(rcpt),
     spending |-> ToTenths(Abs(outly)),
     deficit |-> IF dfct < 0 THEN ToTenths(Abs(dfct)) ELSE ToTenths(-Abs(dfct)),
     reportDate |-> reportDate]

AlwaysOverwrite(map, dateKey, reportDate) == TRUE

\* !monthlyMap[dateKey] || reportDate > monthlyMap[dateKey].reportDate
Supersedes(map, dateKey, reportDate) ==
    dateKey \notin DOMAIN map \/ reportDate > map[dateKey].reportDate

WalkRowFirstHeader(st, reportDate, row) ==
    IF row.record_type_cd = "SL" /\ IsFYHeader(row.classification_desc)
    THEN IF st.currentFY = Null
         THEN [st EXCEPT !.currentFY = Some(FYOf(row.classification_desc))]
         ELSE st
    ELSE IF row.record_type_cd # "MTH" \/ st.currentFY = Null \/ st.currentFY = Some(0)
    THEN st
    ELSE LET fy == st.currentFY[1]
             calMonth == MONTH_MAP(row.classification_desc)
             dateKey == DateKey(fy, calMonth)
             rcpt == parseAmt(row.current_month_gross_rcpt_amt)
             outly == parseAmt(row.current_month_gross_outly_amt)
             dfct == parseAmt(row.current_month_dfct_sur_amt)
         IN IF calMonth = 0 THEN st
            ELSE IF rcpt = 0 /\ outly = 0 THEN st
            ELSE IF Supersedes(st.map, dateKey, reportDate)
            THEN [st EXCEPT !.map = Put(@, dateKey,
                     MonthlyRecord(dateKey, fy, calMonth, rcpt, outly, dfct, reportDate))]
            ELSE st

\* The body of rows.forEach (lines 222-260) on st = [currentFY, map].
\* currentFY is Null or <<year>>; !currentFY also holds for the year 0.
WalkRow(st, reportDate, row) ==
    IF row.record_type_cd = "SL" /\ IsFYHeader(row.classification_desc)
    THEN [st EXCEPT !.currentFY = Some(FYOf(row.classification_desc))]
    ELSE IF row.record_type_cd # "MTH" \/ st.currentFY = Null \/ st.currentFY = Some(0)
    THEN st
    ELSE LET fy == st.currentFY[1]
             calMonth == MONTH_MAP(row.classification_desc)
             dateKey == DateKey(fy, calMonth)
             rcpt == parseAmt(row.current_month_gross_rcpt_amt)
             outly == parseAmt(row.current_month_gross_outly_amt)
             dfct == parseAmt(row.current_month_dfct_sur_amt)
         IN IF calMonth = 0 THEN st
            ELSE IF rcpt = 0 /\ outly = 0 THEN st
            ELSE IF Supersedes(st.map, dateKey, reportDate)
            THEN [st EXCEPT !.map = Put(@, dateKey,
                     MonthlyRecord(dateKey, fy, calMonth, rcpt, outly, dfct, reportDate))]
            ELSE st

RECURSIVE WalkRows(_, _, _)
WalkRows(st, reportDate, rows) ==
    IF rows = <<>> THEN st
    ELSE WalkRows(WalkRow(st, reportDate, Head(rows)), reportDate, Tail(rows))

\* Object.entries(byReport).forEach: currentFY starts as null in every report
RECURSIVE WalkReports(_, _)
WalkReports(map, byReport) ==
    IF byReport = <<>> THEN map
    ELSE LET r == Head(byReport)
             st == WalkRows([currentFY |-> Null, map |-> map],
                            r.reportDate, SortByLine(r.rows))
         IN WalkReports(st.map, Tail(byReport))

BuildMonthlyMap(data) == WalkReports(<<>>, GroupByReport(<<>>, data))

MonthlyUnfiltered(map) ==
    LET order == AscSeq(DOMAIN map)
    IN [i \in DOMAIN order |-> map[order[i]]]

\* Object.values(monthlyMap).filter(revenue > 0 && spending > 0).sort(by date)
Monthly(map) ==
    LET keep == {k \in DOMAIN map : map[k].revenue > 0 /\ map[k].spending > 0}
        order == AscSeq(keep)
    IN [i \in DOMAIN order |-> map[order[i]]]

FY_MONTHS == <<"Oct", "Nov", "Dec", "Jan", "Feb", "Mar",
               "Apr", "May", "Jun", "Jul", "Aug", "Sep">>

\* d.calMonth >= 10 ? d.calMonth - 10 : d.calMonth + 2
FyMonthIdx(calMonth) == IF calMonth >= 10 THEN calMonth - 10 ELSE calMonth + 2

\* fyMap[fyKey].months: the {idx, deficit} entries of one fiscal year
FyMonths(monthly, fy) ==
    LET own == SelectSeq(monthly, LAMBDA d : d.fy = fy)
    IN [i \in DOMAIN own |-> [idx |-> FyMonthIdx(own[i].calMonth),
                              deficit |-> own[i].deficit]]

RECURSIVE SumDeficit(_)
SumDeficit(ms) == IF ms = <<>> THEN 0 ELSE Head(ms).deficit + SumDeficit(Tail(ms))

MaxIdx(ms) == CHOOSE x \in {ms[i].idx : i \in DOMAIN ms} :
                 \A i \in DOMAIN ms : ms[i].idx <= x

MonthOnlyCell(months, idx) ==
    LET at == SelectSeq(months, LAMBDA m : m.idx = idx)
    IN IF at # <<>> THEN Some(SumDeficit(at)) ELSE Null

CarryForwardCell(months, idx) ==
    LET monthsUpTo == SelectSeq(months, LAMBDA m : m.idx <= idx)
    IN IF monthsUpTo # <<>> THEN Some(SumDeficit(monthsUpTo)) ELSE Null

\* lines 287-296: the cell of one fiscal year in the row of label idx (0-based)
CumulativeCell(months, idx) ==
    LET monthsUpTo == SelectSeq(months, LAMBDA m : m.idx <= idx)
    IN IF monthsUpTo # <<>> /\ MaxIdx(monthsUpTo) = idx
       THEN Some(SumDeficit(monthsUpTo))
       ELSE Null

FyKeysOf(monthly) == {monthly[i].fy : i \in DOMAIN monthly}

\* fyDeficit: row i (1-based) is the label FY_MONTHS[i], fiscal-month index i-1
FyDeficit(monthly) ==
    [i \in DOMAIN FY_MONTHS |->
        [month |-> FY_MONTHS[i],
         cells |-> [fy \in FyKeysOf(monthly) |->
                       CumulativeCell(FyMonths(monthly, fy), i - 1)]]]

fetchMTSDataPartial(data) ==
    LET monthly == Monthly(BuildMonthlyMap(data))
    IN [status |-> "ok",
        monthly |-> monthly,
        fyDeficit |-> FyDeficit(monthly),
        fyKeys |-> AscSeq(FyKeysOf(monthly))]

\* lines 263-301: the error thrown or the value returned
fetchMTSData(data) ==
    LET monthly == Monthly(BuildMonthlyMap(data))
    IN IF Len(monthly) = 0
       THEN [status |-> "error", message |-> "MTS: could not parse monthly data."]
       ELSE [status |-> "ok",
             monthly |-> monthly,
             fyDeficit |-> FyDeficit(monthly),
             fyKeys |-> AscSeq(FyKeysOf(monthly))]

\* Payload rows.  Revisions: two reports republishing October of FY 2024.
\* Rollup: one report with the first months of FY 2024 and FY 2025.
MtsRow(rd, line, type, desc, rcpt, outly, dfct) ==
    [record_date |-> rd, line_code_nbr |-> line, record_type_cd |-> type,
     classification_desc |-> desc, current_month_gross_rcpt_amt |-> rcpt,
     current_month_gross_outly_amt |-> outly, current_month_dfct_sur_amt |-> dfct]

MtsLines == {1, 2}
RevisionRows ==
    UNION {{MtsRow(rd, l, "SL", "FY 2024", "null", "null", "null"),
            MtsRow(rd, l, "MTH", "October", "403880000000", "470120000000", "66240000000"),
            MtsRow(rd, l, "MTH", "October", "410000000000", "470120000000", "60120000000")}
           : rd \in {20240131, 20240229}, l \in MtsLines}
RollupRows ==
    UNION {{MtsRow(20240930, l, "SL", "FY 2024", "null", "null", "null"),
            MtsRow(20240930, l, "SL", "FY 2025", "null", "null", "null"),
            MtsRow(20240930, l, "MTH", "October", "403880000000", "470120000000", "66240000000"),
            MtsRow(20240930, l, "MTH", "November", "274000000000", "588000000000", "314000000000"),
            MtsRow(20240930, l, "MTH", "December", "500000000000", "480000000000", "-20000000000"),
            MtsRow(20240930, l, "MTH", "November", "20000000", "588000000000", "314000000000")}
           : l \in MtsLines}

\* Sections: two reports, each with a fiscal-year header (line 1), a
\* year-to-date summary label (line 2) and October and January rows (line 3).
SectionRows ==
    UNION {{MtsRow(rd, 1, "SL", "FY 2024", "null", "null", "null"),
            MtsRow(rd, 2, "SL", "Year-to-Date", "500000000000", "480000000000", "-20000000000"),
            MtsRow(rd, 3, "MTH", "October", "403880000000", "470120000000", "66240000000"),
            MtsRow(rd, 3, "MTH", "January", "274000000000", "588000000000", "314000000000")}
           : rd \in {20240131, 20240229}}

\* Faults: two reports, each with a fiscal-year header (line 1) and, at
\* line 2, October rows that are well-formed, have an unreadable receipts
\* cell, have zero receipts, or carry a month name MONTH_MAP does not know.
FaultRows ==
    UNION {{MtsRow(rd, 1, "SL", "FY 2024", "null", "null", "null"),
            MtsRow(rd, 2, "MTH", "October", "403880000000", "470120000000", "66240000000"),
            MtsRow(rd, 2, "MTH", "October", "n/a", "470120000000", "66240000000"),
            MtsRow(rd, 2, "MTH", "October", "0", "470120000000", "66240000000"),
            MtsRow(rd, 2, "MTH", "Octember", "403880000000", "470120000000", "66240000000")}
           : rd \in {20240131, 20240229}}

SeqsUpTo(S, n) == UNION {[1..k -> S] : k \in 0..n}

InitMTS ==
    /\ pc = "mts"
    /\ mtsData \in SeqsUpTo(RevisionRows, MaxMtsRows) \cup SeqsUpTo(RollupRows, MaxMtsRows)
                    \cup SeqsUpTo(SectionRows, MaxMtsRows)
                    \cup SeqsUpTo(FaultRows, MaxMtsRows)
    /\ monthlyMap = NotRun /\ mts = NotRun
    /\ FedIdle /\ YcIdle /\ TicIdle /\ DebtIdle /\ HookIdle

RunMTS ==
    /\ pc = "mts"
    /\ monthlyMap' = BuildMonthlyMap(mtsData)
    /\ mts' = fetchMTSData(mtsData)
    /\ pc' = "mtsDone"
    /\ UNCHANGED <<mtsData, fedVars, ycVars, ticVars, debtVars, again, hookVars>>

SpecMTS == InitMTS /\ [][RunMTS]_vars

---------------------------------------------------------------------------
(* fetchTICData *)

MaxTicCols == 3
TopN == 31

\* countryData is [names, data]: names holds the keys in insertion order,
\* data maps a country to its { "YYYY-MM": value } object.  Values are in
\* tenths of a billion.
EmptyTable == [names |-> <<>>, data |-> <<>>]

\* if (!countryData[country]) countryData[country] = {}
EnsureCountry(cd, country) ==
    IF country \in DOMAIN cd.data THEN cd
    ELSE [names |-> Append(cd.names, country), data |-> Put(cd.data, country, <<>>)]

\* countryData[country][d] = v
SetHolding(cd, country, d, v) ==
    [cd EXCEPT !.data = Put(@, country, Put(cd.data[country], d, v))]

\* s.trim() is empty
Blank(field) == field \in {"", " "}

\* name.replace(/"/g, "").trim(), then the two aliases
cleanCountryName(name) ==
    CASE name \in {"Japan", " Japan ", "\"Japan\""} -> "Japan"
      [] name \in {"China, Mainland", "\"China, Mainland\"", "China"} -> "China"
      [] name \in {"Korea, South", "South Korea"} -> "South Korea"
      [] Blank(name) -> ""
      [] OTHER -> name

\* parseFloat(text.trim().replace(/,/g, "")) in tenths; Null is NaN
ParseNumber(text) ==
    CASE text \in {"50.0", " 50.0 "} -> Some(500)
      [] text = "72.4" -> Some(724)
      [] text = "1,061.5" -> Some(10615)
      [] text = "0" -> Some(0)
      [] text = "-3.2" -> Some(-32)
      [] OTHER -> Null

\* the value parser of the historical rows (lines 363-368)
HistValue(v) ==
    IF Blank(v) \/ v \in {"null", "*"} THEN 0
    ELSE IF ParseNumber(v) = Null THEN 0
    ELSE ParseNumber(v)[1]

MONTH_NAMES == <<"Jan", "Feb", "Mar", "Apr", "May", "Jun",
                 "Jul", "Aug", "Sep", "Oct", "Nov", "Dec">>

\* MONTH_NAMES.indexOf(m), -1 when absent
MonthIndex(m) ==
    IF \E i \in DOMAIN MONTH_NAMES : MONTH_NAMES[i] = m
    THEN (CHOOSE i \in DOMAIN MONTH_NAMES : MONTH_NAMES[i] = m) - 1
    ELSE -1

\* the year label as the number it spells
YearNumber(yr) ==
    CASE yr = "2019" -> 2019
      [] yr = "2020" -> 2020
      [] yr = "2022" -> 2022
      [] yr = "2023" -> 2023
      [] yr = "2024" -> 2024
      [] yr = "2025" -> 2025

\* line.split("\t").filter(s => s.trim())
NonBlank(line) == SelectSeq(line, LAMBDA f : ~Blank(f))

\* /^\t+(Jan|...|Dec)\t/: empty leading fields, a month name, another field
IsMonthHeader(line) ==
    \E k \in 2..(Len(line) - 1) :
        /\ \A j \in 1..(k - 1) : line[j] = ""
        /\ MonthIndex(line[k]) # -1

\* !row.trim() || row.trim().startsWith("Of which:")
EndsBlock(line) ==
    \/ \A j \in DOMAIN line : Blank(line[j])
    \/ Head(NonBlank(line)) = "Of which:"

\* `${yr}-${String(mi + 1).padStart(2, "0")}` with yr = years[j] || years[0];
\* 0 stands for the null column
DateCol(months, years, j) ==
    LET mi == MonthIndex(months[j])
        yr == IF j <= Len(years) THEN Some(years[j])
              ELSE IF Len(years) >= 1 THEN Some(years[1]) ELSE Null
    IN IF mi = -1 \/ yr = Null THEN 0 ELSE YearNumber(yr[1]) * 100 + mi + 1

\* One country row of a block (lines 359-381) on st = [cd, gt].
HistRow(st, dateCols, parts) ==
    LET country == cleanCountryName(parts[1])
        values == [j \in 1..(Len(parts) - 1) |-> HistValue(parts[j + 1])]
        cols == {j \in DOMAIN dateCols : dateCols[j] # 0 /\ j \in DOMAIN values}
        RECURSIVE PutGT(_, _)
        PutGT(gt, js) ==
            IF js = <<>> THEN gt
            ELSE PutGT(IF values[Head(js)] # 0
                       THEN Put(gt, dateCols[Head(js)], values[Head(js)]) ELSE gt,
                       Tail(js))
        RECURSIVE PutCD(_, _)
        PutCD(cd, js) ==
            IF js = <<>> THEN cd
            ELSE PutCD(IF values[Head(js)] > 0
                       THEN SetHolding(cd, country, dateCols[Head(js)], values[Head(js)])
                       ELSE cd,
                       Tail(js))
    IN IF country = "Grand Total"
       THEN [st EXCEPT !.gt = PutGT(@, AscSeq(cols))]
       ELSE [st EXCEPT !.cd = PutCD(EnsureCountry(@, country), AscSeq(cols))]

\* The inner while loop (lines 354-383): returns the state and the index of
\* the line that ended the block.
RECURSIVE HistBlockRows(_, _, _, _)
HistBlockRows(lines, i, dateCols, st) ==
    IF i > Len(lines) THEN [st |-> st, i |-> i]
    ELSE IF EndsBlock(lines[i]) \/ IsMonthHeader(lines[i]) THEN [st |-> st, i |-> i]
    ELSE IF cleanCountryName(lines[i][1]) = ""
         THEN HistBlockRows(lines, i + 1, dateCols, st)
         ELSE HistBlockRows(lines, i + 1, dateCols, HistRow(st, dateCols, lines[i]))

\* The outer while loop (lines 326-387); lines are 1-based here.
RECURSIVE HistWalk(_, _, _)
HistWalk(lines, i, st) ==
    IF i > Len(lines) THEN st
    ELSE IF ~IsMonthHeader(lines[i]) THEN HistWalk(lines, i + 1, st)
    ELSE IF i + 1 > Len(lines) THEN st
    ELSE LET months == NonBlank(lines[i])
             yearParts == NonBlank(lines[i + 1])
             years == IF yearParts = <<>> THEN <<>> ELSE Tail(yearParts)
             dateCols == [j \in DOMAIN months |-> DateCol(months, years, j)]
             first == IF i + 2 <= Len(lines) /\ (\E j \in DOMAIN lines[i + 2] :
                                                    lines[i + 2][j] = "------")
                      THEN i + 3 ELSE i + 2
             blk == HistBlockRows(lines, first, dateCols, st)
         IN HistWalk(lines, blk.i, blk.st)

\* Stage 1 (lines 319-392): nothing is recorded when the fetch fails
ParseHistorical(hist) ==
    IF hist.ok THEN HistWalk(hist.lines, 1, [cd |-> EmptyTable, gt |-> <<>>])
    ELSE [cd |-> EmptyTable, gt |-> <<>>]

\* text.match(/^\d{4}-\d{2}$/) as the key it spells, 0 when it does not match
DateLabel(text) ==
    CASE text = "2019-12" -> 201912
      [] text = "2020-01" -> 202001
      [] text = "2020-03" -> 202003
      [] text = "2022-05" -> 202205
      [] text = "2023-02" -> 202302
      [] text = "2023-03" -> 202303
      [] text = "2023-11" -> 202311
      [] text = "2023-12" -> 202312
      [] text = "2024-01" -> 202401
      [] text = "2024-02" -> 202402
      [] text = "2025-04" -> 202504
      [] OTHER -> 0

\* firstCell.trim() of a table row
FirstCell(cells) == IF Blank(cells[1]) THEN "" ELSE cells[1]

\* the skip filter of lines 428-434
SkippedRow(firstCell) ==
    \/ firstCell = ""
    \/ firstCell \in {"Of Which: Foreign Official", "Notes:", "Holdings of Treasuries",
                      "Billions of dollars", "Link: release dates"}
    \/ firstCell = "Country"

ValidNonNegative(val) == val # Null /\ val[1] >= 0

ValidNumber(val) == val # Null

\* !isNaN(val) && val > 0
ValidPositive(val) == val # Null /\ val[1] > 0

RECURSIVE PutCellsKeepExisting(_, _, _, _)
PutCellsKeepExisting(obj, cells, dateColumns, i) ==
    IF ~(i < Len(cells) /\ i - 1 < Len(dateColumns)) THEN obj
    ELSE LET val == ParseNumber(cells[i + 1])
         IN PutCellsKeepExisting(
                IF ValidPositive(val) /\ dateColumns[i] \notin DOMAIN obj
                THEN Put(obj, dateColumns[i], val[1]) ELSE obj,
                cells, dateColumns, i + 1)

\* the cell loops of lines 443-448 and 455-460 on one object
RECURSIVE PutCells(_, _, _, _)
PutCells(obj, cells, dateColumns, i) ==
    IF ~(i < Len(cells) /\ i - 1 < Len(dateColumns)) THEN obj
    ELSE LET val == ParseNumber(cells[i + 1])
         IN PutCells(IF ValidPositive(val) THEN Put(obj, dateColumns[i], val[1]) ELSE obj,
                     cells, dateColumns, i + 1)

\* One <tr> (lines 407-461) on st = [cd, gt, dateColumns].
CurrentRow(st, cells) ==
    IF Len(cells) = 0 THEN st
    ELSE IF Len(cells) >= 2 /\ DateLabel(cells[2]) # 0
    THEN [st EXCEPT !.dateColumns =
             LET labels == SelectSeq(Tail(cells), LAMBDA c : DateLabel(c) # 0)
             IN [j \in DOMAIN labels |-> DateLabel(labels[j])]]
    ELSE IF SkippedRow(FirstCell(cells)) THEN st
    ELSE IF Len(st.dateColumns) = 0 THEN st
    ELSE LET country == cleanCountryName(FirstCell(cells))
         IN IF country = "" THEN st
            ELSE IF country = "Grand Total"
            THEN [st EXCEPT !.gt = PutCells(@, cells, st.dateColumns, 1)]
            ELSE LET cd == EnsureCountry(st.cd, country)
                 IN [st EXCEPT !.cd =
                        [cd EXCEPT !.data = Put(@, country,
                            PutCells(cd.data[country], cells, st.dateColumns, 1))]]

\* The row loop (line 406): the outcome of a row is complete before the next
\* row is taken.
RECURSIVE CurrentRows(_, _)
CurrentRows(st, rows) ==
    IF rows = <<>> THEN st
    ELSE LET next == CurrentRow(st, Head(rows))
         IN IF Len(next.dateColumns) >= 0 THEN CurrentRows(next, Tail(rows)) ELSE next

\* Stage 2 on the outcome of stage 1
ParseCurrent(h, rows) ==
    CurrentRows([cd |-> h.cd, gt |-> h.gt, dateColumns |-> <<>>], rows)

CutoffMonths == 18

CutoffKeyNoCarry(n) == n.year * 100 + n.month - CutoffMonths

\* new Date(now.getFullYear(), now.getMonth() - 18, 1) as a "YYYY-MM" key
CutoffKey(n) ==
    LET total == n.year * 12 + (n.month - 1) - CutoffMonths
    IN (total \div 12) * 100 + (total % 12) + 1

\* parseInt(d.split("-")[1], 10)
MonthOfKey(d) == d % 100

AllDates(cd, gt) ==
    AscSeq(UNION {DOMAIN cd.data[c] : c \in DOMAIN cd.data} \cup DOMAIN gt)

\* lines 475-480
DisplayDates(allDates, n) ==
    SelectSeq(SelectSeq(allDates,
                        LAMBDA d : d >= CutoffKey(n) \/ MonthOfKey(d) \in {3, 6, 9, 12}),
              LAMBDA d : d >= 202001)

\* obj[d] || 0
ValueOrZero(obj, d) == IF d \in DOMAIN obj THEN obj[d] ELSE 0

\* countryData[name][displayDates[displayDates.length - 1]] || 0
Latest(cd, displayDates, name) ==
    IF displayDates = <<>> THEN 0
    ELSE ValueOrZero(cd.data[name], displayDates[Len(displayDates)])

\* .sort((a, b) => bLatest - aLatest), a stable sort
RECURSIVE InsertByLatest(_, _, _, _)
InsertByLatest(sorted, name, cd, dd) ==
    IF sorted = <<>> THEN <<name>>
    ELSE IF Latest(cd, dd, Head(sorted)) >= Latest(cd, dd, name)
         THEN <<Head(sorted)>> \o InsertByLatest(Tail(sorted), name, cd, dd)
         ELSE <<name>> \o sorted

RECURSIVE SortByLatest(_, _, _)
SortByLatest(names, cd, dd) ==
    IF names = <<>> THEN <<>>
    ELSE InsertByLatest(SortByLatest(SubSeq(names, 1, Len(names) - 1), cd, dd),
                        names[Len(names)], cd, dd)

SortedCountryNamesUnranked(cd, dd) ==
    LET listed == SelectSeq(cd.names, LAMBDA c : c # "All Other")
    IN SubSeq(listed, 1, IF Len(listed) < TopN THEN Len(listed) ELSE TopN)

\* lines 500-507
SortedCountryNames(cd, dd) ==
    LET ranked == SortByLatest(SelectSeq(cd.names, LAMBDA c : c # "All Other"), cd, dd)
    IN SubSeq(ranked, 1, IF Len(ranked) < TopN THEN Len(ranked) ELSE TopN)

\* The value returned, or the error thrown, given the merged table.
TicResult(html, st, n) ==
    IF ~html.ok THEN [status |-> "error", message |-> "TIC current"]
    ELSE IF ~html.hasTable
    THEN [status |-> "error", message |-> "TIC: no table found in slt_table5.html"]
    ELSE LET dd == DisplayDates(AllDates(st.cd, st.gt), n)
             top == SortedCountryNames(st.cd, dd)
         IN [status |-> "ok",
             dates |-> dd,
             countries |-> [i \in DOMAIN top |->
                 [name |-> top[i],
                  holdings |-> [j \in DOMAIN dd |-> ValueOrZero(st.cd.data[top[i]], dd[j])]]],
             totals |-> [j \in DOMAIN dd |-> ValueOrZero(st.gt, dd[j])]]

\* Inputs.  Merge: one archival block for 2023-03 and 2023-02 and a current
\* table over the same two months.  Display: a current table over up to
\* MaxTicCols months of the pool, read at several dates.
HistTokens == {"50.0", "0", "*"}
CurTokens == {"72.4", "0", "-3.2", "n/a"}
HistNames == {"China, Mainland", "Japan", "Grand Total"}
CurNames == {"China", "Japan"}
DatePool == {"2019-12", "2020-01", "2020-03", "2022-05", "2023-11",
             "2023-12", "2024-01", "2024-02", "2025-04"}
Nows == {[year |-> 2025, month |-> 6], [year |-> 2025, month |-> 7],
         [year |-> 2025, month |-> 8], [year |-> 2026, month |-> 1]}

HistReports ==
    {[ok |-> TRUE,
      lines |-> << <<"", "Mar", "Feb">>, <<"Country", "2023", "2023">>,
                   <<"------", "------", "------">>, <<n, a, b>>, <<"">> >>]
      : n \in HistNames, a \in HistTokens, b \in HistTokens}

CurRows == {<<n, a, b>> : n \in CurNames, a \in CurTokens, b \in CurTokens}
CurTables ==
    {[ok |-> TRUE, hasTable |-> TRUE,
      rows |-> << <<"Holdings of Treasuries">>, <<"Country", "2023-03", "2023-02">> >> \o rs]
      : rs \in [1..1 -> CurRows] \cup [1..2 -> CurRows]}

\* A current table whose header row spells its months "Mar 2023", "Feb 2023":
\* no row has a YYYY-MM label in its second cell.
HeaderlessTables ==
    {[ok |-> TRUE, hasTable |-> TRUE,
      rows |-> << <<"Holdings of Treasuries">>, <<"Country", "Mar 2023", "Feb 2023">>, r >>]
      : r \in CurRows}

NoHist == [ok |-> FALSE, lines |-> <<>>]
DisplayTables ==
    {[ok |-> TRUE, hasTable |-> TRUE,
      rows |-> << <<"Country">> \o hdr,
                  <<"Japan">> \o [j \in DOMAIN hdr |-> "50.0"],
                  <<"Grand Total">> \o [j \in DOMAIN hdr |-> "1,061.5"] >>]
      : hdr \in UNION {[1..k -> DatePool] : k \in 1..MaxTicCols}}
FailedTables ==
    {[ok |-> FALSE, hasTable |-> FALSE, rows |-> <<>>],
     [ok |-> TRUE, hasTable |-> FALSE, rows |-> <<>>]}

\* Ranking: a current table over one month with more entities than the cap
\* and an "All Other" row; one entity holds 72.4, one has a "0" cell (no
\* value), the others hold 50.0.
RankNames ==
    <<"Japan", "All Other", "China", "United Kingdom", "Luxembourg", "Cayman Islands",
      "Canada", "Belgium", "Ireland", "Switzerland", "Taiwan", "India", "Hong Kong",
      "Brazil", "Singapore", "France", "Korea, South", "Norway", "Saudi Arabia",
      "Germany", "Bermuda", "Thailand", "Israel", "Philippines", "Kuwait", "Mexico",
      "Australia", "United Arab Emirates", "Colombia", "Sweden", "Poland",
      "Netherlands", "Spain", "Italy">>
RankTables ==
    {[ok |-> TRUE, hasTable |-> TRUE,
      rows |-> << <<"Country", "2025-04">> >> \o
               [i \in DOMAIN RankNames |->
                   <<RankNames[i],
                     IF i = hi THEN "72.4" ELSE IF i = lo THEN "0" ELSE "50.0">>]]
      : hi \in DOMAIN RankNames, lo \in DOMAIN RankNames}

InitTIC ==
    /\ pc = "tic"
    /\ \/ /\ ticHist = NoHist
          /\ ticHtml \in RankTables
          /\ now = [year |-> 2025, month |-> 6]
       \/ /\ ticHist \in HistReports
          /\ ticHtml \in CurTables \cup FailedTables \cup HeaderlessTables
          /\ now = [year |-> 2025, month |-> 6]
       \/ /\ ticHist = NoHist
          /\ ticHtml \in DisplayTables
          /\ now \in Nows
    /\ histData = NotRun /\ countryData = NotRun /\ tic = NotRun
    /\ FedIdle /\ YcIdle /\ MtsIdle /\ DebtIdle /\ HookIdle

RunTIC ==
    /\ pc = "tic"
    /\ LET h == ParseHistorical(ticHist)
           st == IF ticHtml.ok /\ ticHtml.hasTable
                 THEN ParseCurrent(h, ticHtml.rows)
                 ELSE [cd |-> h.cd, gt |-> h.gt, dateColumns |-> <<>>]
       IN /\ histData' = h.cd
          /\ countryData' = st.cd
          /\ tic' = TicResult(ticHtml, st, now)
    /\ pc' = "ticDone"
    /\ UNCHANGED <<ticHist, ticHtml, now, fedVars, ycVars, mtsVars, debtVars, again, hookVars>>

SpecTIC == InitTIC /\ [][RunTIC]_vars

---------------------------------------------------------------------------
(* fetchDebtData *)

MaxDebtEntries == 3

\* parseFloat of an amount cell, in units of 10^9 dollars; Null is NaN
ParseDebtAmt(v) ==
    CASE v = "34001000000000.00" -> Some(34001)
      [] v = "34567000000000.00" -> Some(34567)
      [] v = "27001000000000.00" -> Some(27001)
      [] v = "27100000000000.00" -> Some(27100)
      [] v = "7000000000000.00" -> Some(7000)
      [] v = "7467000000000.00" -> Some(7467)
      [] OTHER -> Null

\* +(parseFloat(v) / 1e12).toFixed(2), in hundredths of a trillion
Trillions(v) ==
    IF ParseDebtAmt(v) = Null THEN Null ELSE Some(RoundDiv(ParseDebtAmt(v)[1], 10))

\* d.record_date.slice(0, 7) of a YYYYMMDD date, as YYYYMM
DebtMonth(d) == d.record_date \div 100

\* the object stored for one entry (lines 163-168)
DebtRecord(d) ==
    [date |-> DebtMonth(d),
     total |-> Trillions(d.tot_pub_debt_out_amt),
     public |-> Trillions(d.debt_held_public_amt),
     intra |-> Trillions(d.intragov_hold_amt)]

\* data.data.forEach(d => { byMonth[m] = {...} }), in payload order
RECURSIVE GroupByMonth(_, _)
GroupByMonth(byMonth, entries) ==
    IF entries = <<>> THEN byMonth
    ELSE GroupByMonth(Put(byMonth, DebtMonth(Head(entries)), DebtRecord(Head(entries))),
                      Tail(entries))

\* The value returned, or the error thrown.
fetchDebtData(res) ==
    IF ~res.ok THEN [status |-> "error", message |-> "FiscalData debt"]
    ELSE LET byMonth == GroupByMonth(<<>>, res.data)
             months == AscSeq(DOMAIN byMonth)
         IN [status |-> "ok", rows |-> [i \in DOMAIN months |-> byMonth[months[i]]]]

\* Inputs: daily readings out of five days of three months, served as the
\* request asks (sort=-record_date), newest first.
DebtDates == {20240130, 20240131, 20240228, 20240229, 20240301}
DebtReadings ==
    {<<"34001000000000.00", "27001000000000.00", "7000000000000.00">>,
     <<"34567000000000.00", "27100000000000.00", "7467000000000.00">>,
     <<"34567000000000.00", "27100000000000.00", "null">>}

DebtEntry(date, reading) ==
    [record_date |-> date,
     tot_pub_debt_out_amt |-> reading[1],
     debt_held_public_amt |-> reading[2],
     intragov_hold_amt |-> reading[3]]

DescSeq(S) ==
    LET asc == AscSeq(S)
    IN [i \in 1..Len(asc) |-> asc[Len(asc) + 1 - i]]

DebtPayloads ==
    UNION {{[i \in 1..Cardinality(S) |-> DebtEntry(DescSeq(S)[i], r[DescSeq(S)[i]])]
            : r \in [S -> DebtReadings]}
           : S \in {T \in SUBSET DebtDates : Cardinality(T) <= MaxDebtEntries}}

InitDebt ==
    /\ pc = "debt"
    /\ \/ debtData \in {[ok |-> TRUE, data |-> p] : p \in DebtPayloads}
       \/ debtData = [ok |-> FALSE, data |-> <<>>]
    /\ debt = NotRun
    /\ FedIdle /\ YcIdle /\ MtsIdle /\ TicIdle /\ HookIdle

RunDebt ==
    /\ pc = "debt"
    /\ debt' = fetchDebtData(debtData)
    /\ pc' = "debtDone"
    /\ UNCHANGED <<debtData, fedVars, ycVars, mtsVars, ticVars, again, hookVars>>

SpecDebt == InitDebt /\ [][RunDebt]_vars

---------------------------------------------------------------------------
(* useDataFetcher (lines 525-567)

   The hook keeps liveData, loadingStatus and errors as objects keyed by
   source.  A fetchSource call runs to its await, stays suspended while the
   request is out, and its continuation stores the data or the message.  The
   state updates of one handler are functional updaters applied in order;
   the model applies them as one step.  Nothing cancels a suspended call.

   The keyed effect starts six calls that differ only in the key and the
   fetch function; the model keeps "fed", "debt" and "mts" of them. *)

MaxCycles == 2

\* values of fredKey: "" is the unset key
Keys == {"", "key1", "key2"}
\* import.meta.env.VITE_FRED_API_KEY || ""
EnvKeys == {"", "key1"}

KeyedSources == <<"fed", "debt", "mts">>
Sources == Range(KeyedSources) \cup {"tic"}

\* delete n[key]
Remove(obj, key) == [k \in DOMAIN obj \ {key} |-> obj[k]]

\* what fn() of the suspended call f resolves to, and the e.message it
\* rejects with: the response to the requests issued in cycle f.cycle
DataOf(f) == [key |-> f.key, cycle |-> f.cycle]
MessageOf(f) == [failed |-> f.key, cycle |-> f.cycle]

\* fetchSource(key, fn) up to await fn() (lines 532-535), on the hook state h
StartFetch(h, key, c) ==
    [h EXCEPT !.loadingStatus = Put(@, key, "loading"),
              !.errors = Remove(@, key),
              !.inflight = @ \cup {[key |-> key, cycle |-> c]}]

RECURSIVE StartAll(_, _, _)
StartAll(h, keys, c) ==
    IF keys = <<>> THEN h
    ELSE StartAll(StartFetch(h, Head(keys), c), Tail(keys), c)

\* the effect of lines 545-559 run with the key prop k
KeyEffect(h, k) ==
    IF k = "" THEN h
    ELSE LET c == h.cycle + 1
             reset == [h EXCEPT !.liveData = <<>>, !.loadingStatus = <<>>, !.errors = <<>>]
         IN [StartAll(reset, KeyedSources, c) EXCEPT !.cycle = c, !.lastUpdated = Some(c)]

\* the effect of lines 562-564
TicEffect(h) == StartFetch(h, "tic", 0)

HookState ==
    [liveData |-> liveData, loadingStatus |-> loadingStatus, errors |-> errors,
     inflight |-> inflight, cycle |-> cycle, lastUpdated |-> lastUpdated]

SetHookState(h) ==
    /\ liveData' = h.liveData
    /\ loadingStatus' = h.loadingStatus
    /\ errors' = h.errors
    /\ inflight' = h.inflight
    /\ cycle' = h.cycle
    /\ lastUpdated' = h.lastUpdated

InitHook ==
    /\ pc = "hook"
    /\ FedIdle /\ YcIdle /\ MtsIdle /\ TicIdle /\ DebtIdle
    /\ again = NotRun
    /\ mounted = FALSE /\ apiKey \in EnvKeys /\ cycle = 0
    /\ liveData = <<>> /\ loadingStatus = <<>> /\ errors = <<>>
    /\ lastUpdated = Null /\ inflight = {}

\* first render: both effects run, in declaration order
Mount ==
    /\ pc = "hook" /\ ~mounted
    /\ mounted' = TRUE
    /\ SetHookState(TicEffect(KeyEffect(HookState, apiKey)))
    /\ UNCHANGED <<pc, apiKey, fedVars, ycVars, mtsVars, ticVars, debtVars, again>>

\* onSave={setFredKey} with another key: the keyed effect runs again
SetKey ==
    /\ pc = "hook" /\ mounted
    /\ \E k \in Keys \ {apiKey} :
          /\ k # "" => cycle < MaxCycles
          /\ apiKey' = k
          /\ SetHookState(KeyEffect(HookState, k))
    /\ UNCHANGED <<pc, mounted, fedVars, ycVars, mtsVars, ticVars, debtVars, again>>

\* the continuation of lines 536-537
Resolve ==
    /\ pc = "hook"
    /\ \E f \in inflight :
          /\ liveData' = Put(liveData, f.key, DataOf(f))
          /\ loadingStatus' = Put(loadingStatus, f.key, "live")
          /\ inflight' = inflight \ {f}
    /\ UNCHANGED <<pc, mounted, apiKey, cycle, errors, lastUpdated,
                   fedVars, ycVars, mtsVars, ticVars, debtVars, again>>

RejectAborting ==
    /\ pc = "hook"
    /\ \E f \in inflight :
          /\ errors' = Put(errors, f.key, MessageOf(f))
          /\ loadingStatus' = Put(loadingStatus, f.key, "error")
          /\ inflight' = {g \in inflight : g.cycle # f.cycle}
    /\ UNCHANGED <<pc, mounted, apiKey, cycle, liveData, lastUpdated,
                   fedVars, ycVars, mtsVars, ticVars, debtVars, again>>

RejectSilently ==
    /\ pc = "hook"
    /\ \E f \in inflight :
          /\ errors' = Put(errors, f.key, MessageOf(f))
          /\ loadingStatus' = loadingStatus
          /\ inflight' = inflight \ {f}
    /\ UNCHANGED <<pc, mounted, apiKey, cycle, liveData, lastUpdated,
                   fedVars, ycVars, mtsVars, ticVars, debtVars, again>>

\* the catch block of lines 538-542
Reject ==
    /\ pc = "hook"
    /\ \E f \in inflight :
          /\ errors' = Put(errors, f.key, MessageOf(f))
          /\ loadingStatus' = Put(loadingStatus, f.key, "error")
          /\ inflight' = inflight \ {f}
    /\ UNCHANGED <<pc, mounted, apiKey, cycle, liveData, lastUpdated,
                   fedVars, ycVars, mtsVars, ticVars, debtVars, again>>

NextHook == Mount \/ SetKey \/ Resolve \/ Reject

SpecHook == InitHook /\ [][NextHook]_vars

\* Every request returns or fails: the continuation of a suspended fetchSource
\* call runs once its promise has settled, so a settling step cannot stay
\* enabled forever without being taken.  Key changes are bounded by MaxCycles.
SpecHookFair == InitHook /\ [][NextHook]_vars /\ WF_vars(Resolve \/ Reject)

---------------------------------------------------------------------------
(* All four fetch functions: each run starts one of them on its payload *)

Init == InitFed \/ InitYC \/ InitMTS \/ InitTIC
Next == RunFed \/ RunYieldCurve \/ RunMTS \/ RunTIC
Spec == Init /\ [][Next]_vars

---------------------------------------------------------------------------
(* A refresh: the same fetch function is invoked again on what the sources
   still serve.  Only fetchTICData reads the clock (new Date(), line 471), so
   only its second run is given a date of its own. *)

RerunFed ==
    /\ pc = "fedDone"
    /\ again' = [out |-> <<fetchFredMultiple(FedKeys, fredObs),
                           fetchFedData(fetchFredMultiple(FedKeys, fredObs))>>]
    /\ pc' = "fedAgain"
    /\ UNCHANGED <<fedVars, ycVars, mtsVars, ticVars, debtVars, hookVars>>

RerunYieldCurve ==
    /\ pc = "yieldCurveDone"
    /\ again' = [out |-> <<fetchYieldCurveSnapshots(ycObs)>>]
    /\ pc' = "yieldCurveAgain"
    /\ UNCHANGED <<fedVars, ycVars, mtsVars, ticVars, debtVars, hookVars>>

RerunMTS ==
    /\ pc = "mtsDone"
    /\ again' = [out |-> <<BuildMonthlyMap(mtsData), fetchMTSData(mtsData)>>]
    /\ pc' = "mtsAgain"
    /\ UNCHANGED <<fedVars, ycVars, mtsVars, ticVars, debtVars, hookVars>>

NextMonth(n) ==
    IF n.month = 12 THEN [year |-> n.year + 1, month |-> 1]
    ELSE [year |-> n.year, month |-> n.month + 1]

RerunTICDriftingClock ==
    /\ pc = "ticDone"
    /\ \E n2 \in Nows :
          LET h == ParseHistorical(ticHist)
              st == IF ticHtml.ok /\ ticHtml.hasTable
                    THEN ParseCurrent(h, ticHtml.rows)
                    ELSE [cd |-> h.cd, gt |-> h.gt, dateColumns |-> <<>>]
          IN again' = [now |-> n2,
                       out |-> <<h.cd, st.cd, TicResult(ticHtml, st, NextMonth(n2))>>]
    /\ pc' = "ticAgain"
    /\ UNCHANGED <<fedVars, ycVars, mtsVars, ticVars, debtVars, hookVars>>

\* the second run happens at some date n2, the same as the first run's or not
RerunTIC ==
    /\ pc = "ticDone"
    /\ \E n2 \in Nows :
          LET h == ParseHistorical(ticHist)
              st == IF ticHtml.ok /\ ticHtml.hasTable
                    THEN ParseCurrent(h, ticHtml.rows)
                    ELSE [cd |-> h.cd, gt |-> h.gt, dateColumns |-> <<>>]
          IN again' = [now |-> n2, out |-> <<h.cd, st.cd, TicResult(ticHtml, st, n2)>>]
    /\ pc' = "ticAgain"
    /\ UNCHANGED <<fedVars, ycVars, mtsVars, ticVars, debtVars, hookVars>>

NextRerun ==
    \/ RunFed \/ RunYieldCurve \/ RunMTS \/ RunTIC
    \/ RerunFed \/ RerunYieldCurve \/ RerunMTS \/ RerunTIC

SpecRerun == Init /\ [][NextRerun]_vars

---------------------------------------------------------------------------
(* Properties of the series joiner (SpecFed) *)

FedSeries(k) == FetchFredSeries(fredObs[k])
FedBuckets(k) == {FedSeries(k)[i].date \div 100 : i \in DOMAIN FedSeries(k)}
HasAllRequired(d) == FedRequired \subseteq DOMAIN d

\* C4: the rows fetchFedData retains are exactly the buckets of the joined
\* table in which every required field (total, treasuries, mbs) has a value.
C4_CompletenessFilter ==
    pc = "fedDone" =>
        {fedRows[i].date : i \in DOMAIN fedRows}
            = {raw[i].date : i \in {j \in DOMAIN raw : HasAllRequired(raw[j])}}

\* C5: the joined table has exactly one row per year-month bucket occurring in
\* any input series, ascending by bucket, and a row has a series' field iff
\* that series has an observation in the row's bucket.
C5_OuterJoin ==
    pc = "fedDone" =>
        /\ {raw[i].date : i \in DOMAIN raw} = UNION {FedBuckets(k) : k \in Range(FedKeys)}
        /\ \A i, j \in DOMAIN raw : i < j => raw[i].date < raw[j].date
        /\ \A i \in DOMAIN raw :
              /\ DOMAIN raw[i] \subseteq {"date"} \cup Range(FedKeys)
              /\ \A k \in Range(FedKeys) :
                    (k \in DOMAIN raw[i]) <=> (raw[i].date \in FedBuckets(k))

\* Two observations of one series fall in one bucket, a second bucket exists,
\* and some row lacks a field that another row has.
C5_Witness ==
    /\ pc = "fedDone"
    /\ Len(raw) = 2
    /\ \E k \in Range(FedKeys) : Len(FedSeries(k)) > Cardinality(FedBuckets(k))
    /\ \E k \in Range(FedKeys) : k \in DOMAIN raw[2] /\ k \notin DOMAIN raw[1]
    /\ \E k \in Range(FedKeys) : k \in DOMAIN raw[1] /\ k \notin DOMAIN raw[2]

---------------------------------------------------------------------------
(* Properties of the fiscal-statement parser (SpecMTS) *)

MtsReportDates == {mtsData[i].record_date : i \in DOMAIN mtsData}

\* One report as it is walked: its rows in line-index order.
MtsReport(rd) == SortByLine(SelectSeq(mtsData, LAMBDA d : d.record_date = rd))

\* The fiscal year in force at row i of a walked report (0: none).
FYInForce(rows, i) ==
    LET hs == {j \in 1..(i - 1) : /\ rows[j].record_type_cd = "SL"
                                  /\ IsFYHeader(rows[j].classification_desc)}
    IN IF hs = {} THEN 0
       ELSE FYOf(rows[CHOOSE j \in hs : \A h \in hs : h <= j].classification_desc)

\* Row i of a walked report is a monthly-detail row under a fiscal-year header,
\* with a known month and not all-zero.
Processed(rows, i) ==
    /\ rows[i].record_type_cd = "MTH"
    /\ FYInForce(rows, i) # 0
    /\ MONTH_MAP(rows[i].classification_desc) # 0
    /\ ~(parseAmt(rows[i].current_month_gross_rcpt_amt) = 0
         /\ parseAmt(rows[i].current_month_gross_outly_amt) = 0)

KeyOfRow(rows, i) == DateKey(FYInForce(rows, i), MONTH_MAP(rows[i].classification_desc))

ProcessedFor(rd, key) ==
    {i \in DOMAIN MtsReport(rd) : Processed(MtsReport(rd), i) /\ KeyOfRow(MtsReport(rd), i) = key}

RecordOfRow(rd, i) ==
    LET r == MtsReport(rd)[i]
    IN MonthlyRecord(KeyOfRow(MtsReport(rd), i), FYInForce(MtsReport(rd), i),
                     MONTH_MAP(r.classification_desc),
                     parseAmt(r.current_month_gross_rcpt_amt),
                     parseAmt(r.current_month_gross_outly_amt),
                     parseAmt(r.current_month_dfct_sur_amt), rd)

MtsKeys == {202310, 202311, 202312, 202410, 202411, 202412}

\* C1: when rows of two reports published at d1 < d2 are processed for the
\* same date key (d2 the later report, with one row for the key), the record
\* stored for the key is the d2 row's record, in whatever order the report
\* groups are visited.
C1_RevisionPrecedence ==
    pc = "mtsDone" =>
        \A d1, d2 \in MtsReportDates, key \in MtsKeys :
            (/\ d1 < d2
             /\ ProcessedFor(d1, key) # {}
             /\ Cardinality(ProcessedFor(d2, key)) = 1
             /\ \A d3 \in MtsReportDates : d3 > d2 => ProcessedFor(d3, key) = {})
            => /\ key \in DOMAIN monthlyMap
               /\ monthlyMap[key].reportDate = d2
               /\ \A j \in ProcessedFor(d2, key) : monthlyMap[key] = RecordOfRow(d2, j)

\* The later report's group is visited first, the earlier report carries other
\* amounts for the same month, and the later report's record is the one stored.
C1_Witness ==
    /\ pc = "mtsDone"
    /\ mtsData # <<>>
    /\ mtsData[1].record_date = 20240229
    /\ \E i \in ProcessedFor(20240131, 202310), j \in ProcessedFor(20240229, 202310) :
          /\ RecordOfRow(20240131, i).revenue # RecordOfRow(20240229, j).revenue
          /\ Cardinality(ProcessedFor(20240229, 202310)) = 1
          /\ monthlyMap[202310] = RecordOfRow(20240229, j)

MtsCell(fy, k) == mts.fyDeficit[k + 1].cells[fy]
MtsRecordsAt(fy, k) ==
    {i \in DOMAIN mts.monthly :
        mts.monthly[i].fy = fy /\ FyMonthIdx(mts.monthly[i].calMonth) = k}

\* C6: within a fiscal year, when the cells at fiscal months k-1 and k are
\* both non-null, the cell at k is the cell at k-1 plus the monthly deficit of
\* the year's record at k.
C6_CumulativeStep ==
    (pc = "mtsDone" /\ mts.status = "ok") =>
        \A fy \in FyKeysOf(mts.monthly), k \in 1..11 :
            (MtsCell(fy, k - 1) # Null /\ MtsCell(fy, k) # Null)
            => \E i \in MtsRecordsAt(fy, k) :
                  MtsCell(fy, k)[1] = MtsCell(fy, k - 1)[1] + mts.monthly[i].deficit

\* A fiscal year with three consecutive populated cells, the last month a surplus.
C6_Witness ==
    /\ pc = "mtsDone" /\ mts.status = "ok"
    /\ \E fy \in FyKeysOf(mts.monthly) :
          /\ MtsCell(fy, 0) # Null /\ MtsCell(fy, 1) # Null /\ MtsCell(fy, 2) # Null
          /\ MtsCell(fy, 0)[1] < 0
          /\ MtsCell(fy, 2)[1] > MtsCell(fy, 1)[1]

\* C7 as stated: the cell of fiscal year F at label k is populated exactly
\* when F has a monthly record at label k or at a later label.
C7_PopulatedOnceReached ==
    (pc = "mtsDone" /\ mts.status = "ok") =>
        \A fy \in FyKeysOf(mts.monthly), k \in 0..11 :
            (MtsCell(fy, k) # Null) <=> (\E j \in k..11 : MtsRecordsAt(fy, j) # {})

\* C7 (amended): the cell of fiscal year F at label k is populated exactly
\* when F has a monthly record at label k itself, and is null otherwise.
C7_PopulatedIffRecordAtLabel ==
    (pc = "mtsDone" /\ mts.status = "ok") =>
        \A fy \in FyKeysOf(mts.monthly), k \in 0..11 :
            (MtsCell(fy, k) # Null) <=> (MtsRecordsAt(fy, k) # {})

\* A fiscal year with records for October and December and none for November:
\* the November cell is null although the year has passed that month.
C7_Witness ==
    /\ pc = "mtsDone" /\ mts.status = "ok"
    /\ \E fy \in FyKeysOf(mts.monthly) :
          /\ MtsRecordsAt(fy, 0) # {} /\ MtsRecordsAt(fy, 1) = {} /\ MtsRecordsAt(fy, 2) # {}
          /\ MtsCell(fy, 0) # Null /\ MtsCell(fy, 1) = Null /\ MtsCell(fy, 2) # Null

---------------------------------------------------------------------------
(* Properties of the holdings merger (SpecTIC) *)

TicMerged == pc = "ticDone" /\ tic.status = "ok"

\* The date columns in force at row r of the current table: those of the
\* closest preceding row whose second cell is a date label.
CurHeaderAt(r) ==
    LET hs == {h \in 1..(r - 1) : /\ Len(ticHtml.rows[h]) >= 2
                                  /\ DateLabel(ticHtml.rows[h][2]) # 0}
    IN IF hs = {} THEN <<>>
       ELSE LET h == CHOOSE x \in hs : \A y \in hs : y <= x
                labels == SelectSeq(Tail(ticHtml.rows[h]), LAMBDA c : DateLabel(c) # 0)
            IN [j \in DOMAIN labels |-> DateLabel(labels[j])]

\* Row r of the current table is an entity row.
CurEntityRow(r) ==
    LET cells == ticHtml.rows[r]
    IN /\ Len(cells) >= 1
       /\ ~(Len(cells) >= 2 /\ DateLabel(cells[2]) # 0)
       /\ ~SkippedRow(FirstCell(cells))
       /\ CurHeaderAt(r) # <<>>
       /\ cleanCountryName(FirstCell(cells)) \notin {"", "Grand Total"}

\* The cells <<row, column>> of the current table that belong to (entity, date).
CurCellsFor(e, d) ==
    {rc \in (DOMAIN ticHtml.rows) \X (1..MaxTicCols) :
        /\ CurEntityRow(rc[1])
        /\ cleanCountryName(FirstCell(ticHtml.rows[rc[1]])) = e
        /\ rc[2] < Len(ticHtml.rows[rc[1]])
        /\ rc[2] <= Len(CurHeaderAt(rc[1]))
        /\ CurHeaderAt(rc[1])[rc[2]] = d}

CurCellValue(rc) == ParseNumber(ticHtml.rows[rc[1]][rc[2] + 1])

TicEntities == {"China", "Japan"}
TicDates == {DateLabel(x) : x \in DatePool} \cup {202302, 202303}

\* C2: a positive archival value survives the merge when the current table's
\* cells for the same (entity, date) parse to 0, a negative number or NaN.
C2_ZeroNeverOverwrites ==
    TicMerged =>
        \A e \in DOMAIN histData.data :
            \A d \in DOMAIN histData.data[e] :
                (/\ CurCellsFor(e, d) # {}
                 /\ \A rc \in CurCellsFor(e, d) :
                        CurCellValue(rc) = Null \/ CurCellValue(rc)[1] <= 0)
                => /\ e \in DOMAIN countryData.data
                   /\ d \in DOMAIN countryData.data[e]
                   /\ countryData.data[e][d] = histData.data[e][d]

\* The archival report holds 50.0 for both months of one entity; the current
\* table's cells for them are a zero and an unparsable text; 50.0 is retained.
C2_Witness ==
    /\ TicMerged
    /\ \E e \in TicEntities :
          /\ e \in DOMAIN histData.data
          /\ DOMAIN histData.data[e] = {202302, 202303}
          /\ \E rc \in CurCellsFor(e, 202303) : CurCellValue(rc) = Some(0)
          /\ \E rc \in CurCellsFor(e, 202302) : CurCellValue(rc) = Null
          /\ countryData.data[e][202303] = 500
          /\ countryData.data[e][202302] = 500

\* C3: a key whose current-table cell parses to a positive number c holds c
\* after the merge, whatever the archival report recorded for it.
C3_CurrentTakesPrecedence ==
    TicMerged =>
        \A e \in TicEntities, d \in TicDates :
            \A rc \in CurCellsFor(e, d) :
                (/\ CurCellsFor(e, d) = {rc}
                 /\ CurCellValue(rc) # Null
                 /\ CurCellValue(rc)[1] > 0)
                => /\ e \in DOMAIN countryData.data
                   /\ d \in DOMAIN countryData.data[e]
                   /\ countryData.data[e][d] = CurCellValue(rc)[1]

\* The archival report holds 50.0 for a key and the current table 72.4.
C3_Witness ==
    /\ TicMerged
    /\ \E e \in TicEntities :
          /\ e \in DOMAIN histData.data
          /\ 202303 \in DOMAIN histData.data[e]
          /\ histData.data[e][202303] = 500
          /\ \E rc \in CurCellsFor(e, 202303) :
                CurCellsFor(e, 202303) = {rc} /\ CurCellValue(rc) = Some(724)
          /\ countryData.data[e][202303] = 724

\* Whole months from the month of key d to the month of the date n.
MonthsBack(d, n) == (n.year * 12 + n.month) - ((d \div 100) * 12 + (d % 100))

MergedDates == UNION {DOMAIN countryData.data[c] : c \in DOMAIN countryData.data}

\* C10: a date of the merged table is displayed iff it is at or after 2020-01
\* and is at most 18 months before the month of "now" or falls on a quarter
\* month.
C10_DisplayDensity ==
    TicMerged =>
        \A d \in MergedDates :
            (d \in Range(tic.dates))
            <=> (/\ d >= 202001
                 /\ \/ MonthsBack(d, now) <= CutoffMonths
                    \/ (d % 100) \in {3, 6, 9, 12})

\* now = 2025-06: 2024-01 and 2023-12 are displayed, 2023-11 is not.
C10_Witness ==
    /\ TicMerged
    /\ now = [year |-> 2025, month |-> 6]
    /\ MergedDates = {202401, 202312, 202311}
    /\ Range(tic.dates) = {202401, 202312}

---------------------------------------------------------------------------
(* Properties of the curve snapshots (SpecYC) *)

YcSeries(label) == FetchFredSeries(ycObs[label])

\* C8: each historical snapshot value is the value of the observation with
\* the greatest date <= the target, and null when there is none.
C8_NearestPrior ==
    pc = "yieldCurveDone" =>
        \A name \in SnapNames, label \in Mats :
            LET s == YcSeries(label)
                prior == {i \in DOMAIN s : s[i].date <= snapDates[name]}
            IN IF prior = {} THEN curves[name][label] = Null
               ELSE \E i \in prior :
                      /\ \A j \in prior : s[j].date <= s[i].date
                      /\ curves[name][label] = Some(s[i].value)

\* A series with an observation on the target date and a later one with
\* another value, and a series with nothing at or before a target.
C8_Witness ==
    /\ pc = "yieldCurveDone"
    /\ \E label \in Mats, name \in SnapNames :
          LET s == YcSeries(label)
          IN /\ Len(s) = 2
             /\ s[1].date = snapDates[name] /\ s[2].date > snapDates[name]
             /\ s[1].value # s[2].value
             /\ curves[name][label] = Some(s[1].value)
    /\ \E label \in Mats, name \in SnapNames :
          /\ YcSeries(label) # <<>>
          /\ curves[name][label] = Null

\* C9: the "Current" snapshot holds, for every maturity with a non-empty
\* series, the value of the series' last observation.
C9_CurrentIsLast ==
    pc = "yieldCurveDone" =>
        \A label \in Mats :
            LET s == YcSeries(label)
            IN s # <<>> => curves["Current"][label] = Some(s[Len(s)].value)


---------------------------------------------------------------------------
(* Further properties of the fiscal-statement parser (SpecMTS) *)

\* The records that survive the revenue/spending filter, read off monthlyMap.
MtsUsableKeys ==
    {k \in DOMAIN monthlyMap : monthlyMap[k].revenue > 0 /\ monthlyMap[k].spending > 0}

\* C16: when no record remains after revision resolution and the
\* revenue/spending filter, fetchMTSData fails with an error and returns
\* nothing else: no monthly list, no rollup, no fiscal-year keys.
C16_EmptyResultFails ==
    (pc = "mtsDone" /\ MtsUsableKeys = {}) =>
        /\ mts.status = "error"
        /\ DOMAIN mts = {"status", "message"}

\* Rows were processed and a record was stored, but its revenue rounds to
\* 0.0, so the filter leaves nothing and the parser fails.
C16_Witness ==
    /\ pc = "mtsDone"
    /\ DOMAIN monthlyMap # {}
    /\ MtsUsableKeys = {}
    /\ mts.status = "error"

\* C18: the returned monthly list is strictly ascending by date key (so it
\* has at most one record per date key) and every record has revenue > 0
\* and spending > 0.
C18_MonthlyInvariant ==
    (pc = "mtsDone" /\ mts.status = "ok") =>
        /\ \A i, j \in DOMAIN mts.monthly :
              i < j => mts.monthly[i].date < mts.monthly[j].date
        /\ \A i \in DOMAIN mts.monthly :
              mts.monthly[i].revenue > 0 /\ mts.monthly[i].spending > 0

\* Two records are returned in date order although the payload lists the
\* later month first, and a stored record with revenue 0.0 was dropped.
C18_Witness ==
    /\ pc = "mtsDone" /\ mts.status = "ok"
    /\ Len(mts.monthly) = 2
    /\ Cardinality(DOMAIN monthlyMap) = 3
    /\ \E i, j \in DOMAIN mtsData :
          /\ i < j
          /\ mtsData[i].classification_desc = "December"
          /\ mtsData[j].classification_desc = "October"

\* C19: every stored record comes from a monthly-detail row of the report it
\* names, that row is preceded in the report's line order by a "FY <year>"
\* section label, and the record's fiscal year is the year of the closest
\* such label of that same report; other section labels neither change the
\* year nor produce a record, and no year is carried over from another report.
C19_FiscalYearStateMachine ==
    pc = "mtsDone" =>
        \A k \in DOMAIN monthlyMap :
            LET rd == monthlyMap[k].reportDate
            IN /\ rd \in MtsReportDates
               /\ \E i \in DOMAIN MtsReport(rd) :
                     /\ MtsReport(rd)[i].record_type_cd = "MTH"
                     /\ FYInForce(MtsReport(rd), i) # 0
                     /\ monthlyMap[k].fy = FYInForce(MtsReport(rd), i)
                     /\ monthlyMap[k].calMonth = MONTH_MAP(MtsReport(rd)[i].classification_desc)

\* The report walked first has a header and a January row; the later report
\* has a year-to-date label before its January row and no header of its own,
\* and the stored record is still the earlier report's.
C19_Witness ==
    /\ pc = "mtsDone"
    /\ Len(mtsData) = 4
    /\ mtsData[1].record_date = 20240131
    /\ \E i \in DOMAIN MtsReport(20240229) :
          /\ i > 1
          /\ MtsReport(20240229)[i].record_type_cd = "MTH"
          /\ MtsReport(20240229)[i - 1].classification_desc = "Year-to-Date"
          /\ FYInForce(MtsReport(20240229), i) = 0
    /\ 202401 \in DOMAIN monthlyMap
    /\ monthlyMap[202401].reportDate = 20240131

\* C20: a returned record of fiscal year F and calendar month m has the date
\* key (F-1)-m for m in 10..12 and F-m for m in 1..9; the rollup cell of F
\* that it populates is the one at index m-10 for m >= 10 and m+2 otherwise;
\* two records of one fiscal year never share that index.
C20_FiscalCalendar ==
    (pc = "mtsDone" /\ mts.status = "ok") =>
        /\ \A i \in DOMAIN mts.monthly :
              LET r == mts.monthly[i]
                  idx == IF r.calMonth >= 10 THEN r.calMonth - 10 ELSE r.calMonth + 2
              IN /\ r.calMonth \in 1..12
                 /\ r.date = (IF r.calMonth >= 10 THEN r.fy - 1 ELSE r.fy) * 100 + r.calMonth
                 /\ mts.fyDeficit[idx + 1].cells[r.fy] # Null
                 /\ mts.fyDeficit[idx + 1].month = FY_MONTHS[idx + 1]
        /\ \A i, j \in DOMAIN mts.monthly :
              (i # j /\ mts.monthly[i].fy = mts.monthly[j].fy)
              => mts.monthly[i].calMonth # mts.monthly[j].calMonth

\* Fiscal year 2024 with an October record keyed 2023-10 and a January
\* record keyed 2024-01, in the "Oct" and "Jan" rows of the rollup.
C20_Witness ==
    /\ pc = "mtsDone" /\ mts.status = "ok"
    /\ \E i, j \in DOMAIN mts.monthly :
          /\ mts.monthly[i].fy = 2024 /\ mts.monthly[i].date = 202310
          /\ mts.monthly[j].fy = 2024 /\ mts.monthly[j].date = 202401
    /\ mts.fyDeficit[1].cells[2024] # Null
    /\ mts.fyDeficit[4].month = "Jan" /\ mts.fyDeficit[4].cells[2024] # Null


---------------------------------------------------------------------------
(* Further properties of the holdings merge (SpecTIC) *)

\* The rows of the current table whose second cell is a YYYY-MM label.
CurDateHeaderRows ==
    {r \in DOMAIN ticHtml.rows :
        Len(ticHtml.rows[r]) >= 2 /\ DateLabel(ticHtml.rows[r][2]) # 0}

\* C15: when the current table has no row whose second cell matches the
\* YYYY-MM date-label pattern, fetchTICData fails with an error and returns
\* no result.
C15_MissingHeaderFails ==
    (pc = "ticDone" /\ ticHtml.ok /\ ticHtml.hasTable /\ CurDateHeaderRows = {})
        => tic.status = "error"


---------------------------------------------------------------------------
(* Determinism of the four fetch functions (SpecRerun) *)

---------------------------------------------------------------------------
(* Properties of useDataFetcher (SpecHook) *)

\* What the hook holds for source k: its data, status and message, if any.
Slot(k) ==
    <<IF k \in DOMAIN liveData THEN Some(liveData[k]) ELSE Null,
      IF k \in DOMAIN loadingStatus THEN Some(loadingStatus[k]) ELSE Null,
      IF k \in DOMAIN errors THEN Some(errors[k]) ELSE Null>>

StatusOf(k) == IF k \in DOMAIN loadingStatus THEN loadingStatus[k] ELSE "none"

\* C12: when a suspended fetch settles, by success or by failure, every
\* other suspended fetch stays suspended and the data, status and message of
\* every other source are untouched; the settling source ends either "live"
\* with its own data stored or "error" with its message, so a failure never
\* keeps a sibling from completing.
C12_IsolatedFailure ==
    [][\A f \in inflight :
          f \notin inflight' =>
              /\ inflight' = inflight \ {f}
              /\ \A k \in Sources \ {f.key} : Slot(k)' = Slot(k)
              /\ \/ /\ StatusOf(f.key)' = "live"
                    /\ Slot(f.key)'[1] = Some(DataOf(f))
                 \/ /\ StatusOf(f.key)' = "error"
                    /\ Slot(f.key)'[3] = Some(MessageOf(f))]_vars

\* One cycle, everything settled: a keyed source failed, and another keyed
\* source and the holdings source are live with their own data.
C12_Witness ==
    /\ mounted /\ cycle = 1 /\ inflight = {}
    /\ StatusOf("fed") = "error" /\ "fed" \in DOMAIN errors
    /\ StatusOf("debt") = "live" /\ "debt" \in DOMAIN liveData
    /\ liveData["debt"] = [key |-> "debt", cycle |-> 1]
    /\ StatusOf("tic") = "live" /\ "tic" \in DOMAIN liveData

\* C13: once every fetch has settled after a key change, the data held for a
\* key-dependent source was produced by the newest cycle.
C13_OnlyNewestCycle ==
    (mounted /\ inflight = {} /\ cycle >= 2) =>
        \A k \in Range(KeyedSources) \cap DOMAIN liveData : liveData[k].cycle = cycle

\* C14: a source with status "error" has a message recorded under its key
\* and no data stored under its key.
C14_ErrorMeansNoData ==
    \A k \in DOMAIN loadingStatus :
        loadingStatus[k] = "error" => (k \in DOMAIN errors /\ k \notin DOMAIN liveData)

\* C17: mounted with the FRED key unset and never entered, the debt source
\* has been fetched: its request is out, or its status is "live" or "error".
C17_DebtNeedsNoKey ==
    (mounted /\ apiKey = "" /\ cycle = 0) =>
        \/ \E f \in inflight : f.key = "debt"
        \/ StatusOf("debt") \in {"live", "error"}


---------------------------------------------------------------------------
(* Sign of the stored deficit (SpecMTS) *)

\* The raw deficit/surplus amounts of the processed rows of report rd for key
\* whose receipts and outlays give the stored revenue and spending.
RawDeficitsOf(rd, key) ==
    {parseAmt(MtsReport(rd)[i].current_month_dfct_sur_amt) :
        i \in {j \in ProcessedFor(rd, key) :
                 /\ ToTenths(parseAmt(MtsReport(rd)[j].current_month_gross_rcpt_amt))
                        = monthlyMap[key].revenue
                 /\ ToTenths(Abs(parseAmt(MtsReport(rd)[j].current_month_gross_outly_amt)))
                        = monthlyMap[key].spending}}

\* C21: every stored record holds, for the raw deficit/surplus amount of its
\* row, the magnitude |raw| when raw is negative and -|raw| when raw is zero
\* or positive (in tenths of a billion): a stored negative value is a
\* deficit, a stored positive value a surplus.
C21_DeficitSign ==
    pc = "mtsDone" =>
        \A k \in DOMAIN monthlyMap :
            \E rawAmt \in RawDeficitsOf(monthlyMap[k].reportDate, k) :
                /\ rawAmt < 0 => /\ monthlyMap[k].deficit = RoundDiv(-rawAmt, 10)
                                 /\ monthlyMap[k].deficit >= 0
                /\ rawAmt >= 0 => /\ monthlyMap[k].deficit = -RoundDiv(rawAmt, 10)
                                  /\ monthlyMap[k].deficit <= 0

\* A December row with a negative raw amount stored as a positive value next
\* to an October row with a positive raw amount stored as a negative value.
C21_Witness ==
    /\ pc = "mtsDone"
    /\ 202310 \in DOMAIN monthlyMap /\ monthlyMap[202310].deficit = -662
    /\ 202312 \in DOMAIN monthlyMap /\ monthlyMap[202312].deficit = 200
    /\ RawDeficitsOf(20240930, 202312) = {-2000}


---------------------------------------------------------------------------
(* Malformed rows and revisions (SpecMTS) *)

\* isNaN(parseFloat(v)) on a cell that is neither null nor empty (lines 194-196)
Unparsable(v) == v = "n/a"

\* A monthly-detail row with a month name MONTH_MAP lacks or an amount cell
\* parseFloat cannot read.
Malformed(d) ==
    /\ d.record_type_cd = "MTH"
    /\ \/ MONTH_MAP(d.classification_desc) = 0
       \/ Unparsable(d.current_month_gross_rcpt_amt)
       \/ Unparsable(d.current_month_gross_outly_amt)
       \/ Unparsable(d.current_month_dfct_sur_amt)

\* C22: the parser returns what it returns on the payload without its
\* malformed monthly-detail rows: such a row raises no error, yields no
\* record and leaves the records of the other rows as they would be.
C22_MalformedRowsSkipped ==
    pc = "mtsDone" =>
        mts = fetchMTSData(SelectSeq(mtsData, LAMBDA d : ~Malformed(d)))

\* No report of the payload has two processed rows for one date key.
OneRowPerMonthAndReport ==
    \A rd \in MtsReportDates :
        \A i, j \in DOMAIN MtsReport(rd) :
            (/\ i # j
             /\ Processed(MtsReport(rd), i)
             /\ Processed(MtsReport(rd), j))
            => KeyOfRow(MtsReport(rd), i) # KeyOfRow(MtsReport(rd), j)

\* C30: when some report has a processed monthly row for a date key whose
\* record has revenue > 0 and spending > 0, the returned monthly list has a
\* record for that date key, whatever the other reports hold for the key
\* (each report having one row per month).
C30_NoLossThroughRevision ==
    (pc = "mtsDone" /\ OneRowPerMonthAndReport) =>
        \A rd \in MtsReportDates :
            \A i \in DOMAIN MtsReport(rd) :
                (/\ Processed(MtsReport(rd), i)
                 /\ RecordOfRow(rd, i).revenue > 0
                 /\ RecordOfRow(rd, i).spending > 0)
                => /\ mts.status = "ok"
                   /\ \E j \in DOMAIN mts.monthly :
                         mts.monthly[j].date = KeyOfRow(MtsReport(rd), i)


---------------------------------------------------------------------------
(* Order independence (SpecMTS) *)

\* Within every report the line-ordering indices are distinct.
DistinctLines ==
    \A i, j \in DOMAIN mtsData :
        (i # j /\ mtsData[i].record_date = mtsData[j].record_date)
        => mtsData[i].line_code_nbr # mtsData[j].line_code_nbr

\* the payload with rows i and j exchanged
SwapRows(data, i, j) ==
    [k \in DOMAIN data |-> IF k = i THEN data[j] ELSE IF k = j THEN data[i] ELSE data[k]]

\* C29: when the line indices within each report are distinct, exchanging any
\* two rows of the payload leaves the returned monthly list, rollup and
\* fiscal-year keys unchanged.  Exchanges generate every permutation, and a
\* permuted payload is again a payload with distinct line indices, so the
\* result is the same for every order of the rows and of the report groups.
C29_OrderIndependent ==
    (pc = "mtsDone" /\ DistinctLines) =>
        \A i, j \in DOMAIN mtsData :
            i < j => fetchMTSData(SwapRows(mtsData, i, j)) = mts

\* Two reports with distinct lines, the later report first in the payload and
\* a monthly row ahead of its header, and a record is returned.
C29_Witness ==
    /\ pc = "mtsDone" /\ DistinctLines
    /\ Len(mtsData) = 4
    /\ mtsData[1].record_date = 20240229 /\ mtsData[1].record_type_cd = "MTH"
    /\ mtsData[2].record_date = 20240229 /\ mtsData[2].record_type_cd = "SL"
    /\ mtsData[3].record_date = 20240131 /\ mtsData[4].record_date = 20240131
    /\ mts.status = "ok"
    /\ monthlyMap[mts.monthly[1].date].reportDate = 20240229
    /\ Cardinality({mtsData[k].current_month_gross_rcpt_amt : k \in {1, 3, 4}} \ {"null"}) = 2


---------------------------------------------------------------------------
(* Positivity of the entity table (SpecTIC) *)

\* C23: after the archival and the current stage every value stored in the
\* entity table is strictly positive, and an (entity, date) key exists only
\* where the archival report or a cell of the current table holds a positive
\* number for it: a zero, negative, "*" or unreadable cell creates no key.
C23_EntityTablePositive ==
    pc = "ticDone" =>
        /\ \A c \in DOMAIN histData.data :
              \A d \in DOMAIN histData.data[c] : histData.data[c][d] > 0
        /\ \A c \in DOMAIN countryData.data :
              \A d \in DOMAIN countryData.data[c] :
                  /\ countryData.data[c][d] > 0
                  /\ \/ /\ c \in DOMAIN histData.data
                        /\ d \in DOMAIN histData.data[c]
                        /\ histData.data[c][d] = countryData.data[c][d]
                     \/ \E rc \in CurCellsFor(c, d) :
                           CurCellValue(rc) = Some(countryData.data[c][d])

\* The archival row of Japan holds "0" and "*", the current row holds "-3.2"
\* and "n/a": Japan is in the table with no date key at all.
C23_Witness ==
    /\ pc = "ticDone" /\ tic.status = "ok"
    /\ ticHist.ok /\ ticHist.lines[4] = <<"Japan", "0", "*">>
    /\ Len(ticHtml.rows) = 3 /\ ticHtml.rows[3] = <<"Japan", "-3.2", "n/a">>
    /\ CurCellsFor("Japan", 202303) # {}
    /\ "Japan" \in DOMAIN countryData.data
    /\ DOMAIN countryData.data["Japan"] = {}


---------------------------------------------------------------------------
(* Top-N selection (SpecTIC) *)

TicReturned == {tic.countries[i].name : i \in DOMAIN tic.countries}

\* The value of entity c at the most recent display date, 0 when missing.
ValueAtLastDate(c) ==
    IF tic.dates = <<>> THEN 0
    ELSE IF tic.dates[Len(tic.dates)] \in DOMAIN countryData.data[c]
         THEN countryData.data[c][tic.dates[Len(tic.dates)]]
         ELSE 0

\* C24: at most 31 entities are returned, all of them entities of the merged
\* table other than "All Other", and each one's value at the most recent
\* display date is at least that of every other entity of the merged table
\* that was left out ("All Other" aside), a missing value counting as 0.
C24_TopN ==
    TicMerged =>
        /\ Len(tic.countries) <= TopN
        /\ Cardinality(TicReturned) = Len(tic.countries)
        /\ TicReturned \subseteq (DOMAIN countryData.data) \ {"All Other"}
        /\ \A r \in TicReturned :
              \A o \in (DOMAIN countryData.data) \ (TicReturned \cup {"All Other"}) :
                  ValueAtLastDate(r) >= ValueAtLastDate(o)

\* The merged table has "All Other" and 33 further entities; 31 are returned,
\* the one holding 72.4 (last in the table) among them, and the entity
\* without a value is left out.
C24_Witness ==
    /\ TicMerged
    /\ Cardinality(DOMAIN countryData.data) = 34
    /\ Len(tic.countries) = 31
    /\ tic.countries[1].name = "Italy"
    /\ ValueAtLastDate("Italy") = 724
    /\ ValueAtLastDate("China") = 0 /\ "China" \notin TicReturned
    /\ \E o \in (DOMAIN countryData.data) \ TicReturned : ValueAtLastDate(o) = 500

---------------------------------------------------------------------------
(* Monthly reduction of the debt series (SpecDebt) *)

DebtReturned == pc = "debtDone" /\ debt.status = "ok"

\* The position in the payload of the reading with the greatest record_date
\* of month m.
LastReadingOf(m) ==
    CHOOSE i \in DOMAIN debtData.data :
        /\ DebtMonth(debtData.data[i]) = m
        /\ \A j \in DOMAIN debtData.data :
              DebtMonth(debtData.data[j]) = m
                  => debtData.data[j].record_date <= debtData.data[i].record_date

\* C25: on a payload served newest first, the rows returned are in ascending
\* order of month, one per month of the payload, and each row carries the
\* values of the reading with the greatest record_date of its month.
C25_LastReadingPerMonth ==
    DebtReturned =>
        /\ \A i \in 1..(Len(debt.rows) - 1) : debt.rows[i].date < debt.rows[i + 1].date
        /\ {debt.rows[i].date : i \in DOMAIN debt.rows}
               = {DebtMonth(debtData.data[j]) : j \in DOMAIN debtData.data}
        /\ \A i \in DOMAIN debt.rows :
              debt.rows[i] = DebtRecord(debtData.data[LastReadingOf(debt.rows[i].date)])

---------------------------------------------------------------------------
(* Persistence and consistency of the hook's state (SpecHook) *)

\* C26: across a change of the API key, a holdings source that has completed
\* keeps its data in liveData and its status "live".
C26_TicSurvivesKeyChange ==
    [][(/\ apiKey' # apiKey
        /\ StatusOf("tic") = "live"
        /\ "tic" \in DOMAIN liveData)
          => /\ StatusOf("tic")' = "live"
             /\ "tic" \in DOMAIN liveData'
             /\ liveData'["tic"] = liveData["tic"]]_vars

\* C27: for every source, the status is "live" exactly when data is stored
\* under its key and "error" exactly when a message is stored under its key;
\* a source that is loading or has no status has neither.
C27_StatusMatchesStores ==
    \A k \in Sources :
        /\ StatusOf(k) = "live" <=> k \in DOMAIN liveData
        /\ StatusOf(k) = "error" <=> k \in DOMAIN errors
        /\ StatusOf(k) \in {"loading", "none"}
              => (k \notin DOMAIN liveData /\ k \notin DOMAIN errors)

---------------------------------------------------------------------------
(* Settling of fetches (SpecHookFair) *)

\* C28: when every request returns or fails and the key stops changing,
\* every source whose status is "loading" eventually has status "live" or
\* "error", and from some point on no source has status "loading".
C28_FetchesSettle ==
    /\ \A k \in Sources :
          (StatusOf(k) = "loading") ~> (StatusOf(k) \in {"live", "error"})
    /\ <>[](\A k \in Sources : StatusOf(k) # "loading")

\* Two cycles were started and every fetch has settled: no source is loading,
\* one keyed source ended in "error" and another in "live".
C28_Witness ==
    /\ mounted /\ cycle = MaxCycles /\ inflight = {}
    /\ \A k \in Range(KeyedSources) : StatusOf(k) \in {"live", "error"}
    /\ StatusOf("fed") = "error"
    /\ StatusOf("debt") = "live"

====
